---- MODULE Spec2Model ----
(***************************************************************************)
(* Model of the two protocol encoders of ch57x-keyboard-tool-enhanced:     *)
(* Keyboard884x (family A, src/keyboard/k884x.rs) and Keyboard8890         *)
(* (family B, src/keyboard/k8890.rs).  An encoder owns a device handle and *)
(* an endpoint; bind_key turns (layer, key, macro) into an ordered         *)
(* sequence of frames handed to the blocking transport primitive `send`.   *)
(* Frames are sequences of bytes; TLA+ sequences are 1-based, so byte i of *)
(* a frame in the 0-based numbering of the sources is At(f, i).            *)
(***************************************************************************)
EXTENDS Integers, Sequences, FiniteSets, TLC

VARIABLES kbd, wire, last, budget

vars == <<kbd, wire, last, budget>>

----------------------------------------------------------------------------
(* Program constants.                                                      *)

MaxLayer == 15
MaxKeys884x == 18
MaxKeys8890 == 5
MaxDelayMs == 6000
KeyCeiling884x == 15
KeyCeiling8890 == 12
PreferredEndpoint == 4

(* Bounds of the model.                                                    *)

MaxCalls == 2

----------------------------------------------------------------------------
(* Fixed-width integer arithmetic.                                         *)

RECURSIVE BitOr(_, _)
BitOr(a, b) ==
    IF a = 0 THEN b
    ELSE IF b = 0 THEN a
    ELSE (IF (a % 2 = 1) \/ (b % 2 = 1) THEN 1 ELSE 0)
         + 2 * BitOr(a \div 2, b \div 2)

RECURSIVE BitAnd(_, _)
BitAnd(a, b) ==
    IF a = 0 \/ b = 0 THEN 0
    ELSE (IF (a % 2 = 1) /\ (b % 2 = 1) THEN 1 ELSE 0)
         + 2 * BitAnd(a \div 2, b \div 2)

\* `x as u8`: truncation to the low 8 bits.
AsU8(x) == x % 256

\* `x << k` on a u8: bits shifted past bit 7 are lost.
Shl8(x, k) == (x * (2 ^ k)) % 256

LeBytes_BigEndian(x) == <<(x \div 256) % 256, x % 256>>

\* u16::to_le_bytes
LeBytes(x) == <<x % 256, (x \div 256) % 256>>

\* `(v as i32) & 0xff` for a signed v: the low byte of the two's complement
\* representation.  The representation is taken at 16 bits, whose low byte
\* is that of the 32-bit one (the model checker's integers are 32 bits wide).
LowByteOfSigned(v) == BitAnd(v % (2 ^ 16), 255)

At(f, i) == f[i + 1]

----------------------------------------------------------------------------
(* Data model shared by both encoders (super module of the encoders).      *)

ModifierBit ==
    [Ctrl |-> 1, Shift |-> 2, Alt |-> 4, Win |-> 8]

RECURSIVE BitsOf(_)
BitsOf(S) ==
    IF S = {} THEN 0
    ELSE LET m == CHOOSE x \in S : TRUE
         IN  BitOr(ModifierBit[m], BitsOf(S \ {m}))

\* Modifiers::as_u8 : the bitmask of a set of modifiers.
ModifiersAsU8(mods) == BitsOf(mods)

\* `modifier.map_or(0, |m| m as u8)` : optional single modifier.
ModifierByte(modifier) ==
    IF modifier = {} THEN 0 ELSE ModifierBit[CHOOSE m \in modifier : TRUE]

ButtonBit ==
    [Left |-> 1, Right |-> 2, Middle |-> 4]

RECURSIVE ButtonsAsU8(_)
ButtonsAsU8(S) ==
    IF S = {} THEN 0
    ELSE LET b == CHOOSE x \in S : TRUE
         IN  BitOr(ButtonBit[b], ButtonsAsU8(S \ {b}))

\* `code.map_or(0, |c| c.value())` : optional scan code.
CodeValue(code) ==
    IF code = {} THEN 0 ELSE CHOOSE c \in code : TRUE

\* Macro::kind
Kind(m) ==
    CASE m.type = "Keyboard" -> 0
      [] m.type = "Media" -> 2
      [] m.type = "Mouse" /\ m.action = "Click" -> 1
      [] OTHER -> 3

\* Key::to_key_id(max): a key is modelled by its 0-based ordinal; the id is
\* the 1-based ordinal, and there is none at or above the ceiling.
KeyIdValid(key, max) == key < max
ToKeyId(key, max) == key + 1

KeyPart(mods, code) == [t |-> "Key", modifiers |-> mods, code |-> code]
DelayPart(ms) == [t |-> "Delay", ms |-> ms]
IsKey(p) == p.t = "Key"
IsDelay(p) == p.t = "Delay"

KeyboardMacro(presses) == [type |-> "Keyboard", presses |-> presses]
MediaMacro(code) == [type |-> "Media", code |-> code]
ClickMacro(buttons, modifier) ==
    [type |-> "Mouse", action |-> "Click", buttons |-> buttons,
     modifier |-> modifier]
WheelMacro(action, modifier) ==
    [type |-> "Mouse", action |-> action, modifier |-> modifier]
MoveMacro(dx, dy, modifier) ==
    [type |-> "Mouse", action |-> "Move", dx |-> dx, dy |-> dy,
     modifier |-> modifier]

----------------------------------------------------------------------------
(* Execution of a handler body.  A handler is a sequence of steps, each    *)
(* either a `self.send(frame)?` or an early return with an error; the `?`  *)
(* of a send returns the transport's error.  failAt = k > 0 makes the k-th *)
(* transport write of the call fail, failAt = 0 makes none fail.           *)

Send(f) == [t |-> "send", f |-> f, e |-> "Ok"]
Fail(e) == [t |-> "fail", f |-> <<>>, e |-> e]

RECURSIVE Exec(_, _, _, _, _)
Exec(steps, i, nsent, failAt, acc) ==
    IF i > Len(steps) THEN [log |-> acc, result |-> "Ok"]
    ELSE IF steps[i].t = "fail" THEN [log |-> acc, result |-> steps[i].e]
    ELSE IF nsent + 1 = failAt
         THEN [log |-> Append(acc, [f |-> steps[i].f, ok |-> FALSE]),
               result |-> "TransportError"]
    ELSE Exec(steps, i + 1, nsent + 1, failAt,
              Append(acc, [f |-> steps[i].f, ok |-> TRUE]))

\* A run that writes on after a failed write.
RECURSIVE ExecOn(_, _, _, _, _, _)
ExecOn(steps, i, nsent, failAt, acc, res) ==
    IF i > Len(steps) THEN [log |-> acc, result |-> res]
    ELSE IF steps[i].t = "fail"
         THEN [log |-> acc, result |-> IF res = "Ok" THEN steps[i].e ELSE res]
    ELSE ExecOn(steps, i + 1, nsent + 1, failAt,
                Append(acc, [f |-> steps[i].f, ok |-> nsent + 1 # failAt]),
                IF nsent + 1 = failAt THEN "TransportError" ELSE res)

Run_WritesOn(steps, failAt) == ExecOn(steps, 1, 0, failAt, <<>>, "Ok")

Run(steps, failAt) == Exec(steps, 1, 0, failAt, <<>>)

----------------------------------------------------------------------------
(* Family A: Keyboard884x.                                                 *)

Header884x_NineBytes(layer, key, m) ==
    <<3, 254, ToKeyId(key, KeyCeiling884x), layer + 1, Kind(m), 0, 0, 0, 0>>

\* The header built before the macro is inspected.
Header884x(layer, key, m) ==
    <<3, 254, ToKeyId(key, KeyCeiling884x), layer + 1, Kind(m), 0, 0, 0, 0, 0>>

\* The length that is checked against the 18-press limit.
MacroLen884x(presses) == Len(presses)

KeyCount884x_AllParts(presses) == Len(presses)

\* `presses.iter().filter(|p| matches!(p, Key(_))).count()`
KeyCount884x(presses) ==
    Cardinality({i \in 1..Len(presses) : IsKey(presses[i])})

\* The bytes the loop over the parts appends: two per Key, none per Delay.
RECURSIVE PartBytes884x(_)
PartBytes884x(presses) ==
    IF presses = <<>> THEN <<>>
    ELSE LET p == Head(presses)
         IN  (IF IsKey(p)
              THEN <<ModifiersAsU8(p.modifiers), CodeValue(p.code)>>
              ELSE <<>>) \o PartBytes884x(Tail(presses))

\* The early return of the match on the macro, "Ok" when there is none.
ExtendError884x(m) ==
    CASE m.type = "Keyboard" ->
            IF MacroLen884x(m.presses) <= MaxKeys884x THEN "Ok"
            ELSE "MacroTooLong"
      [] m.type = "Media" -> "Ok"
      [] m.type = "Mouse" /\ m.action = "Click" ->
            IF m.buttons # {} THEN "Ok" ELSE "MissingButtons"
      [] m.type = "Mouse" /\ m.action \in {"WheelUp", "WheelDown"} -> "Ok"

Extension884x_WheelDownAsUp(m) ==
    CASE m.type = "Keyboard" ->
            <<AsU8(KeyCount884x(m.presses))>> \o PartBytes884x(m.presses)
      [] m.type = "Media" ->
            <<0, LeBytes(m.code)[1], LeBytes(m.code)[2], 0, 0, 0, 0>>
      [] m.type = "Mouse" /\ m.action = "Click" ->
            <<1, 0, ButtonsAsU8(m.buttons)>>
      [] m.type = "Mouse" /\ m.action \in {"WheelUp", "WheelDown"} ->
            <<3, ModifierByte(m.modifier), 0, 0, 0, 1>>

\* The bytes the match on the macro appends to the header.
Extension884x(m) ==
    CASE m.type = "Keyboard" ->
            <<AsU8(KeyCount884x(m.presses))>> \o PartBytes884x(m.presses)
      [] m.type = "Media" ->
            <<0, LeBytes(m.code)[1], LeBytes(m.code)[2], 0, 0, 0, 0>>
      [] m.type = "Mouse" /\ m.action = "Click" ->
            <<1, 0, ButtonsAsU8(m.buttons)>>
      [] m.type = "Mouse" /\ m.action = "WheelUp" ->
            <<3, ModifierByte(m.modifier), 0, 0, 0, 1>>
      [] m.type = "Mouse" /\ m.action = "WheelDown" ->
            <<3, ModifierByte(m.modifier), 0, 0, 0, 255>>

Msg884x(layer, key, m) == Header884x(layer, key, m) \o Extension884x(m)

\* delay_msg: the header message with bytes 4, 5 and 6 replaced.
DelayMsg884x(msg, ms) ==
    [msg EXCEPT ![5] = 5, ![6] = LeBytes(ms)[1], ![7] = LeBytes(ms)[2]]

DelaySteps884x_OffByOne(m, msg) ==
    IF m.type = "Keyboard" /\ m.presses # <<>> /\ IsDelay(Head(m.presses))
    THEN IF Head(m.presses).ms >= MaxDelayMs
         THEN <<Fail("DelayOutOfRange")>>
         ELSE <<Send(DelayMsg884x(msg, Head(m.presses).ms))>>
    ELSE <<>>

\* The steps taken for a leading delay part, after the header was sent.
DelaySteps884x(m, msg) ==
    IF m.type = "Keyboard" /\ m.presses # <<>> /\ IsDelay(Head(m.presses))
    THEN IF Head(m.presses).ms > MaxDelayMs
         THEN <<Fail("DelayOutOfRange")>>
         ELSE <<Send(DelayMsg884x(msg, Head(m.presses).ms))>>
    ELSE <<>>

Finish884x_Swapped ==
    << Send(<<3, 253, 254, 255>>),
       Send(<<3, 170, 170, 0, 0, 0, 0, 0, 0>>),
       Send(<<3, 170, 170, 0, 0, 0, 0, 0, 0>>) >>

Finish884x ==
    << Send(<<3, 170, 170, 0, 0, 0, 0, 0, 0>>),
       Send(<<3, 253, 254, 255>>),
       Send(<<3, 170, 170, 0, 0, 0, 0, 0, 0>>) >>

\* Keyboard884x::bind_key as the sequence of its steps.
Steps884x(layer, key, m) ==
    IF layer > MaxLayer THEN <<Fail("InvalidLayer")>>
    ELSE IF ~KeyIdValid(key, KeyCeiling884x) THEN <<Fail("InvalidKey")>>
    ELSE IF ExtendError884x(m) # "Ok" THEN <<Fail(ExtendError884x(m))>>
    ELSE LET msg == Msg884x(layer, key, m)
         IN  <<Send(msg)>> \o DelaySteps884x(m, msg) \o Finish884x

----------------------------------------------------------------------------
(* Family B: Keyboard8890.                                                 *)

Start8890_RawLayer(layer) == <<3, 254, layer, 1, 1, 0, 0, 0, 0>>

Start8890(layer) == <<3, 254, layer + 1, 1, 1, 0, 0, 0, 0>>

Finish8890 == <<3, 170, 170, 0, 0, 0, 0, 0, 0>>

\* `((layer + 1) << 4) | kind`, computed in u8.
LayerKind8890(layer, kind) == BitOr(Shl8(layer + 1, 4), kind)

\* A payload frame is built with `key.to_key_id(12)?` among its bytes.
PayloadStep8890(key, frame) ==
    IF KeyIdValid(key, KeyCeiling8890) THEN Send(frame) ELSE Fail("InvalidKey")

\* `once((0, 0)).chain(iter)`: the placeholder, then one pair per part.
Items8890(presses) ==
    <<  <<0, 0>>  >> \o
    [i \in 1..Len(presses) |->
        IF IsKey(presses[i])
        THEN <<ModifiersAsU8(presses[i].modifiers), CodeValue(presses[i].code)>>
        ELSE <<0, 0>>]

LenByte8890_WithPlaceholder(presses) == AsU8(Len(presses) + 1)

\* The `len` byte of the per-element frames.
LenByte8890(presses) == AsU8(Len(presses))

KeyboardFrame8890(layer, key, m, i, item) ==
    <<3, ToKeyId(key, KeyCeiling8890), LayerKind8890(layer, Kind(m)),
      LenByte8890(m.presses), AsU8(i), item[1], item[2], 0, 0>>

KeyboardError8890_LeadingOnly(presses) ==
    IF ~(Len(presses) <= MaxKeys8890) THEN "MacroTooLong"
    ELSE IF presses # <<>> /\ IsDelay(Head(presses)) THEN "UnsupportedFeature"
    ELSE "Ok"

\* The two `ensure!` of the Keyboard arm, "Ok" when both pass.
KeyboardError8890(presses) ==
    IF ~(Len(presses) <= MaxKeys8890) THEN "MacroTooLong"
    ELSE IF ~(\A i \in 1..Len(presses) : IsKey(presses[i]))
         THEN "UnsupportedFeature"
    ELSE "Ok"

KeyboardSteps8890(layer, key, m) ==
    IF KeyboardError8890(m.presses) # "Ok"
    THEN <<Fail(KeyboardError8890(m.presses))>>
    ELSE LET items == Items8890(m.presses)
         IN  [i \in 1..Len(items) |->
                PayloadStep8890(key,
                    KeyboardFrame8890(layer, key, m, i - 1, items[i]))]

MouseFrame8890_XBeforeY(layer, key, m) ==
    LET id == ToKeyId(key, KeyCeiling8890)
        lk == LayerKind8890(layer, 3)
        mb == ModifierByte(m.modifier)
    IN  CASE m.action = "Click" ->
                <<3, id, lk, ButtonsAsU8(m.buttons), 0, 0, 0, mb, 0>>
          [] m.action = "WheelUp" -> <<3, id, lk, 0, 0, 0, 1, mb, 0>>
          [] m.action = "WheelDown" -> <<3, id, lk, 0, 0, 0, 255, mb, 0>>
          [] m.action = "Move" ->
                <<3, id, lk, 0, LowByteOfSigned(m.dx), LowByteOfSigned(m.dy),
                  0, mb, 0>>

MouseFrame8890(layer, key, m) ==
    LET id == ToKeyId(key, KeyCeiling8890)
        lk == LayerKind8890(layer, 3)
        mb == ModifierByte(m.modifier)
    IN  CASE m.action = "Click" ->
                <<3, id, lk, ButtonsAsU8(m.buttons), 0, 0, 0, mb, 0>>
          [] m.action = "WheelUp" -> <<3, id, lk, 0, 0, 0, 1, mb, 0>>
          [] m.action = "WheelDown" -> <<3, id, lk, 0, 0, 0, 255, mb, 0>>
          [] m.action = "Move" ->
                <<3, id, lk, 0, LowByteOfSigned(m.dy), LowByteOfSigned(m.dx),
                  0, mb, 0>>

BodySteps8890_NoButtonCheck(layer, key, m) ==
    CASE m.type = "Keyboard" -> KeyboardSteps8890(layer, key, m)
      [] m.type = "Media" ->
            << PayloadStep8890(key,
                 <<3, ToKeyId(key, KeyCeiling8890), LayerKind8890(layer, 2),
                   LeBytes(m.code)[1], LeBytes(m.code)[2], 0, 0, 0, 0>>) >>
      [] m.type = "Mouse" ->
            <<PayloadStep8890(key, MouseFrame8890(layer, key, m))>>

\* The match on the macro.
BodySteps8890(layer, key, m) ==
    CASE m.type = "Keyboard" -> KeyboardSteps8890(layer, key, m)
      [] m.type = "Media" ->
            << PayloadStep8890(key,
                 <<3, ToKeyId(key, KeyCeiling8890), LayerKind8890(layer, 2),
                   LeBytes(m.code)[1], LeBytes(m.code)[2], 0, 0, 0, 0>>) >>
      [] m.type = "Mouse" ->
            IF m.action = "Click" /\ m.buttons = {}
            THEN <<Fail("MissingButtons")>>
            ELSE <<PayloadStep8890(key, MouseFrame8890(layer, key, m))>>

Steps8890_FinishFirst(layer, key, m) ==
    IF layer > MaxLayer THEN <<Fail("InvalidLayer")>>
    ELSE <<Send(Start8890(layer)), Send(Finish8890)>>
         \o BodySteps8890(layer, key, m)

\* Keyboard8890::bind_key as the sequence of its steps.
Steps8890(layer, key, m) ==
    IF layer > MaxLayer THEN <<Fail("InvalidLayer")>>
    ELSE <<Send(Start8890(layer))>> \o BodySteps8890(layer, key, m)
         \o <<Send(Finish8890)>>

----------------------------------------------------------------------------
(* set_led and construction.                                               *)

SetLedResult884x(n) == "UnsupportedFeature"

SetLedResult8890_NoOp(n) == IF n = 0 THEN "Ok" ELSE "UnsupportedFeature"

SetLedResult8890(n) == "UnsupportedFeature"

\* `keyboard.send(&[])?` of both constructors.
StepsNew == <<Send(<<>>)>>

----------------------------------------------------------------------------
(* State.  kbd is the encoder instance (state "none" before construction,  *)
(* "failed" when the constructor returned the probe's error), wire the log *)
(* of the buffers handed to the transport on the handle, each with the     *)
(* outcome of its write, last the most recent call (base is the length of  *)
(* the wire log when the call started) and budget the number of bind_key   *)
(* calls the caller still issues.                                          *)

NoKbd == [state |-> "none", family |-> "none", handle |-> "none", endpoint |-> 0]

NoMacro == [type |-> "None"]

NoCall ==
    [op |-> "none", layer |-> 0, key |-> 0, macro |-> NoMacro, n |-> 0,
     result |-> "Ok", base |-> 0]

Handles == {"h1"}

Endpoints == {PreferredEndpoint, PreferredEndpoint + 1}

InitWith(b) ==
    /\ kbd = NoKbd
    /\ wire = <<>>
    /\ last = NoCall
    /\ budget = b

New_IgnoresProbeError(family, handle, endpoint, failAt) ==
    /\ kbd.state = "none"
    /\ LET r == Run(StepsNew, failAt)
       IN  /\ wire' = wire \o r.log
           /\ kbd' = [state |-> "ready", family |-> family,
                      handle |-> handle, endpoint |-> endpoint]
           /\ last' = [NoCall EXCEPT !.op = "new", !.result = "Ok",
                                     !.base = Len(wire)]
    /\ UNCHANGED budget

\* Keyboard884x::new / Keyboard8890::new
New(family, handle, endpoint, failAt) ==
    /\ kbd.state = "none"
    /\ LET r == Run(StepsNew, failAt)
       IN  /\ wire' = wire \o r.log
           /\ kbd' = IF r.result = "Ok"
                     THEN [state |-> "ready", family |-> family,
                           handle |-> handle, endpoint |-> endpoint]
                     ELSE [NoKbd EXCEPT !.state = "failed"]
           /\ last' = [NoCall EXCEPT !.op = "new", !.result = r.result,
                                     !.base = Len(wire)]
    /\ UNCHANGED budget

New884x(handle, endpoint, failAt) == New("884x", handle, endpoint, failAt)

New8890(handle, endpoint, failAt) == New("8890", handle, endpoint, failAt)

\* An encoder that resumes after a failed write instead of starting again.
BindKey_Resumes(family, steps, layer, key, m, failAt) ==
    /\ kbd.state = "ready"
    /\ kbd.family = family
    /\ budget > 0
    /\ LET rest == IF ~wire[Len(wire)].ok THEN Tail(steps) ELSE steps
           r == Run(rest, failAt)
       IN  /\ wire' = wire \o r.log
           /\ last' = [op |-> "bind_key", layer |-> layer, key |-> key,
                       macro |-> m, n |-> 0, result |-> r.result,
                       base |-> Len(wire)]
    /\ budget' = budget - 1
    /\ UNCHANGED kbd

\* The effect of one bind_key call whose steps are given.
BindKey(family, steps, layer, key, m, failAt) ==
    /\ kbd.state = "ready"
    /\ kbd.family = family
    /\ budget > 0
    /\ LET r == Run(steps, failAt)
       IN  /\ wire' = wire \o r.log
           /\ last' = [op |-> "bind_key", layer |-> layer, key |-> key,
                       macro |-> m, n |-> 0, result |-> r.result,
                       base |-> Len(wire)]
    /\ budget' = budget - 1
    /\ UNCHANGED kbd

BindKey884x(layer, key, m, failAt) ==
    BindKey("884x", Steps884x(layer, key, m), layer, key, m, failAt)

BindKey8890(layer, key, m, failAt) ==
    BindKey("8890", Steps8890(layer, key, m), layer, key, m, failAt)

SetLed(family, result, n) ==
    /\ kbd.state = "ready"
    /\ kbd.family = family
    /\ last' = [NoCall EXCEPT !.op = "set_led", !.n = n, !.result = result,
                              !.base = Len(wire)]
    /\ UNCHANGED <<kbd, wire, budget>>

SetLed884x(n) == SetLed("884x", SetLedResult884x(n), n)

SetLed8890(n) == SetLed("8890", SetLedResult8890(n), n)

----------------------------------------------------------------------------
(* Inputs.                                                                 *)

\* The transport may fail any one write of a call, or none.
FailPoints(steps) == 0..Len(Run(steps, 0).log)

AccordOf(j) ==
    CASE j % 3 = 0 -> KeyPart({}, {4})
      [] j % 3 = 1 -> KeyPart({"Ctrl", "Shift"}, {5})
      [] j % 3 = 2 -> KeyPart({"Alt"}, {})

Keys(n, rot) == [i \in 1..n |-> AccordOf(i + rot)]

InsertAt(s, pos, x) ==
    SubSeq(s, 1, pos - 1) \o <<x>> \o SubSeq(s, pos, Len(s))

Layers == 0..(MaxLayer + 1)

KeyOrdinals == {0, KeyCeiling8890, KeyCeiling884x}

DelayValues == {0, MaxDelayMs, MaxDelayMs + 1}

LedValues == {0, 255}

Modifiers == {{}} \cup {{md} : md \in DOMAIN ModifierBit}

KeyboardMacros ==
    {KeyboardMacro(Keys(n, 0)) : n \in 0..(MaxKeys884x + 1)}
    \cup {KeyboardMacro(Keys(n, 1)) : n \in 1..(MaxKeys8890 + 1)}
    \cup {KeyboardMacro(<<DelayPart(ms)>> \o Keys(n, 0)) :
            n \in 0..(MaxKeys884x + 1), ms \in DelayValues}
    \cup UNION {{KeyboardMacro(InsertAt(Keys(n, 0), pos, DelayPart(100))) :
                   pos \in 2..(n + 1)} :
                n \in (1..MaxKeys8890) \cup {MaxKeys884x - 1, MaxKeys884x}}

MediaMacros == {MediaMacro(c) : c \in {0, 233, 256, 4660, 65535}}

ClickMacros ==
    {ClickMacro(b, md) : b \in SUBSET {"Left", "Right", "Middle"},
                         md \in Modifiers}

WheelMacros ==
    {WheelMacro(a, md) : a \in {"WheelUp", "WheelDown"}, md \in Modifiers}

MoveMacros ==
    {MoveMacro(dx, dy, md) : dx \in {-128, -1, 0, 1, 127},
                             dy \in {-128, -1, 0, 1, 127},
                             md \in {{}, {"Alt"}}}

\* Family A has no Move arm.
Macros884x == KeyboardMacros \cup MediaMacros \cup ClickMacros \cup WheelMacros

Macros8890 == Macros884x \cup MoveMacros

\* The inputs of the calls of a session of several calls.
SessionLayers == {MaxLayer, MaxLayer + 1}

SessionKeys == {0}

SessionMacros ==
    { KeyboardMacro(Keys(1, 0)),
      KeyboardMacro(<<DelayPart(100)>> \o Keys(1, 0)),
      MediaMacro(233),
      ClickMacro({}, {}) }

----------------------------------------------------------------------------
(* Specifications.  SpecOne: one bind_key call with inputs from the wide   *)
(* sets.  Spec: a session of up to MaxCalls bind_key calls.                *)

Construct ==
    \E h \in Handles, e \in Endpoints, failAt \in FailPoints(StepsNew) :
        New884x(h, e, failAt) \/ New8890(h, e, failAt)

InitOne == InitWith(1)

\* The encoder of the family exists and the caller has a call left.
CanBind(family) == kbd.state = "ready" /\ kbd.family = family /\ budget > 0

NextOne ==
    \/ Construct
    \/ /\ CanBind("884x")
       /\ \E layer \in Layers, key \in KeyOrdinals, m \in Macros884x :
            \E failAt \in FailPoints(Steps884x(layer, key, m)) :
               BindKey884x(layer, key, m, failAt)
    \/ /\ CanBind("8890")
       /\ \E layer \in Layers, key \in KeyOrdinals, m \in Macros8890 :
            \E failAt \in FailPoints(Steps8890(layer, key, m)) :
               BindKey8890(layer, key, m, failAt)
    \/ \E n \in LedValues : SetLed884x(n) \/ SetLed8890(n)

SpecOne == InitOne /\ [][NextOne]_vars

Init == InitWith(MaxCalls)

Next ==
    \/ Construct
    \/ /\ CanBind("884x")
       /\ \E layer \in SessionLayers, key \in SessionKeys, m \in SessionMacros :
            \E failAt \in FailPoints(Steps884x(layer, key, m)) :
               BindKey884x(layer, key, m, failAt)
    \/ /\ CanBind("8890")
       /\ \E layer \in SessionLayers, key \in SessionKeys, m \in SessionMacros :
            \E failAt \in FailPoints(Steps8890(layer, key, m)) :
               BindKey8890(layer, key, m, failAt)
    \/ \E n \in LedValues : SetLed884x(n) \/ SetLed8890(n)

Spec == Init /\ [][Next]_vars

\* One call whose macro carries a numeric field, over the whole range of
\* each of its bytes: every dx with a few dy and every dy with a few dx;
\* every low byte of a media code with a few high bytes and conversely.
AxisValues == {-128, -1, 0, 1, 127}

AxisMoveMacros ==
    {MoveMacro(dx, dy, md) : dx \in -128..127, dy \in AxisValues,
                             md \in {{}, {"Alt"}}}
    \cup {MoveMacro(dx, dy, md) : dx \in AxisValues, dy \in -128..127,
                                  md \in {{}, {"Alt"}}}

ByteMediaMacros ==
    {MediaMacro(lo + 256 * hi) : lo \in 0..255, hi \in {0, 1, 255}}
    \cup {MediaMacro(lo + 256 * hi) : lo \in {0, 233, 255}, hi \in 0..255}

ByteLayers == {0, MaxLayer}

NextBytes ==
    \/ Construct
    \/ /\ CanBind("884x")
       /\ \E layer \in ByteLayers, key \in SessionKeys, m \in ByteMediaMacros :
            \E failAt \in FailPoints(Steps884x(layer, key, m)) :
               BindKey884x(layer, key, m, failAt)
    \/ /\ CanBind("8890")
       /\ \E layer \in ByteLayers, key \in SessionKeys, m \in AxisMoveMacros :
            \E failAt \in FailPoints(Steps8890(layer, key, m)) :
               BindKey8890(layer, key, m, failAt)

SpecBytes == InitOne /\ [][NextBytes]_vars

TypeOK ==
    /\ kbd.state \in {"none", "ready", "failed"}
    /\ budget \in 0..MaxCalls
    /\ last.base <= Len(wire)

----------------------------------------------------------------------------
(* Observations of the most recent call, made on the wire log.             *)

\* The log entries and the frames of the most recent call.
CallLog == SubSeq(wire, last.base + 1, Len(wire))

CallFrames == [i \in 1..Len(CallLog) |-> CallLog[i].f]

IsBind(family) == last.op = "bind_key" /\ kbd.family = family

AllWritten == \A i \in 1..Len(CallLog) : CallLog[i].ok

FinishFrame == <<3, 170, 170, 0, 0, 0, 0, 0, 0>>

FinishFrame2 == <<3, 253, 254, 255>>

IsKeyboard(m) == m.type = "Keyboard"

KeyElements(m) == SelectSeq(m.presses, IsKey)

HasDelay(m) == \E i \in 1..Len(m.presses) : IsDelay(m.presses[i])

LeadingDelay(m) ==
    IsKeyboard(m) /\ m.presses # <<>> /\ IsDelay(m.presses[1])

\* A per-element or single payload frame of family B: nine bytes whose
\* second byte is a key id, which is neither 0xFE nor 0xAA.
IsPayload8890(f) ==
    Len(f) = 9 /\ At(f, 0) = 3 /\ At(f, 1) \in 1..KeyCeiling8890

----------------------------------------------------------------------------
(* C1: family B, every bind_key call that returns success has written, in  *)
(* order, exactly one start frame [3,0xFE,layer+1,1,1,0,0,0,0], then the   *)
(* payload frames (N+1 for a keyboard macro of N presses, one for media    *)
(* and for each mouse action), then exactly one finish frame; no payload   *)
(* frame lies before the start frame or after the finish frame.            *)
C1_StartPayloadFinish ==
    (IsBind("8890") /\ last.result = "Ok") =>
        LET F == CallFrames
            n == Len(F)
            payload == IF IsKeyboard(last.macro)
                       THEN Len(KeyElements(last.macro)) + 1
                       ELSE 1
        IN  /\ n = payload + 2
            /\ F[1] = <<3, 254, last.layer + 1, 1, 1, 0, 0, 0, 0>>
            /\ F[n] = FinishFrame
            /\ \A i \in 2..(n - 1) : IsPayload8890(F[i])
            /\ \A i \in 1..n : IsPayload8890(F[i]) => (1 < i /\ i < n)
            /\ AllWritten

C1_Witness ==
    /\ IsBind("8890")
    /\ last.result = "Ok"
    /\ IsKeyboard(last.macro)
    /\ Len(last.macro.presses) = MaxKeys8890
    /\ Len(CallFrames) = MaxKeys8890 + 3

(* C2: family A, every bind_key call that returns success has written, in  *)
(* order, one header frame, at most one delay frame, then exactly the      *)
(* three finish frames [3,0xAA,0xAA,0,0,0,0,0,0], [3,0xFD,0xFE,0xFF],      *)
(* [3,0xAA,0xAA,0,0,0,0,0,0]; nothing follows the third finish frame and   *)
(* no finish frame precedes the header.                                    *)
C2_HeaderDelayFinish ==
    (IsBind("884x") /\ last.result = "Ok") =>
        LET F == CallFrames
            n == Len(F)
        IN  /\ n \in {4, 5}
            /\ At(F[1], 0) = 3 /\ At(F[1], 1) = 254 /\ Len(F[1]) >= 10
            /\ F[n - 2] = FinishFrame
            /\ F[n - 1] = FinishFrame2
            /\ F[n] = FinishFrame
            /\ \A i \in 1..(n - 3) : F[i] \notin {FinishFrame, FinishFrame2}
            /\ n = 5 => (At(F[2], 4) = 5 /\ Len(F[2]) = Len(F[1]))
            /\ AllWritten

C2_Witness ==
    /\ IsBind("884x")
    /\ last.result = "Ok"
    /\ LeadingDelay(last.macro)
    /\ Len(CallFrames) = 5

(* C3: for both families, when the transport write of a frame fails during *)
(* bind_key, that frame is the last one of the call (no retry, no later    *)
(* payload or finish frame) and bind_key returns the transport error; a    *)
(* bind_key call made after a failed one starts with its own first frame.  *)
FirstFrameOf(family, layer, key, m) ==
    IF family = "884x"
    THEN <<3, 254, key + 1, layer + 1, Kind(m)>>
    ELSE <<3, 254, layer + 1, 1, 1>>

C3_TransportFailureAborts ==
    last.op = "bind_key" =>
        LET L == CallLog
            n == Len(L)
        IN  /\ \A i \in 1..n : ~L[i].ok => i = n
            /\ (last.result = "TransportError") <=> (n > 0 /\ ~L[n].ok)
            /\ (last.base > 1 /\ ~wire[last.base].ok /\ n > 0) =>
                  SubSeq(L[1].f, 1, 5) =
                     FirstFrameOf(kbd.family, last.layer, last.key, last.macro)
            /\ \A i \in 2..(Len(wire) - 1) :
                  ~wire[i].ok => (Len(wire[i + 1].f) >= 9
                                  /\ At(wire[i + 1].f, 1) = 254)

C3_Witness ==
    /\ last.op = "bind_key"
    /\ last.base > 1
    /\ ~wire[last.base].ok
    /\ Len(CallLog) > 1
    /\ ~CallLog[Len(CallLog)].ok

(* C4: for both families, bind_key with layer > 15 fails with InvalidLayer *)
(* and writes no frame; for every layer in 0..15 the layer byte on the     *)
(* wire is layer+1 (byte 3 of the family-A header, byte 2 of the family-B  *)
(* start frame).                                                           *)
C4_LayerByte ==
    last.op = "bind_key" =>
        /\ last.layer > MaxLayer =>
              (last.result = "InvalidLayer" /\ CallLog = <<>>)
        /\ last.layer <= MaxLayer =>
              /\ last.result # "InvalidLayer"
              /\ CallLog # <<>> =>
                    IF kbd.family = "884x"
                    THEN At(CallFrames[1], 3) = last.layer + 1
                    ELSE At(CallFrames[1], 2) = last.layer + 1

C4_Witness ==
    /\ IsBind("8890")
    /\ last.layer = MaxLayer
    /\ CallLog # <<>>
    /\ At(CallFrames[1], 2) = 16

(* C5: family A accepts keyboard macros of up to 18 key presses and fails  *)
(* MacroTooLong only when there are more than 18 presses, Delay elements   *)
(* not counting as presses: 18 Key elements succeed, also after a leading  *)
(* Delay, and 19 Key elements fail.                                        *)
C5_EighteenPresses ==
    (IsBind("884x") /\ IsKeyboard(last.macro)) =>
        LET m == last.macro
            presses == Len(KeyElements(m))
            valid == last.layer <= MaxLayer
                     /\ KeyIdValid(last.key, KeyCeiling884x)
        IN  /\ last.result = "MacroTooLong" => presses > MaxKeys884x
            /\ (valid /\ presses > MaxKeys884x) => last.result = "MacroTooLong"
            /\ ( /\ valid
                 /\ presses = MaxKeys884x
                 /\ AllWritten
                 /\ \/ ~HasDelay(m)
                    \/ /\ LeadingDelay(m)
                       /\ m.presses[1].ms <= MaxDelayMs
                       /\ Len(m.presses) = presses + 1 )
               => last.result = "Ok"

(* C6: family A keyboard macro header frame: byte 10 is the number of Key  *)
(* elements (Delay elements excluded), followed by exactly two bytes       *)
(* (modifier, code; code 0 when absent) per Key element in sequence order, *)
(* so the frame is 11 + 2 * (number of Key elements) bytes long.           *)
C6_HeaderKeyCount ==
    (IsBind("884x") /\ IsKeyboard(last.macro) /\ CallLog # <<>>) =>
        LET H == CallFrames[1]
            K == KeyElements(last.macro)
        IN  /\ Len(H) = 11 + 2 * Len(K)
            /\ At(H, 10) = Len(K)
            /\ \A j \in 1..Len(K) :
                  /\ At(H, 9 + 2 * j) = ModifiersAsU8(K[j].modifiers)
                  /\ At(H, 10 + 2 * j) = CodeValue(K[j].code)

C6_Witness ==
    /\ IsBind("884x")
    /\ LeadingDelay(last.macro)
    /\ Len(KeyElements(last.macro)) = 3
    /\ CallLog # <<>>
    /\ Len(CallFrames[1]) = 17

(* C7: family A delay handling.  Once the header frame is written, a delay *)
(* frame is written iff the macro is Keyboard and its first element is     *)
(* Delay(ms) with ms <= 6000; it is written once, right after the header   *)
(* and before the first finish frame, and equals the header except byte 4  *)
(* = 0x05 and bytes 5-6 = little-endian ms.  A first element Delay(ms)     *)
(* with ms > 6000 fails with DelayOutOfRange and no delay frame is         *)
(* written; Delay(6000) succeeds.                                          *)
IsDelayFrame(f) == Len(f) > 6 /\ At(f, 4) = 5

C7_DelayFrame ==
    (IsBind("884x") /\ CallLog # <<>> /\ CallLog[1].ok) =>
        LET F == CallFrames
            m == last.macro
            ms == m.presses[1].ms
            inRange == LeadingDelay(m) /\ ms <= MaxDelayMs
        IN  /\ (\E i \in 1..Len(F) : IsDelayFrame(F[i])) <=> inRange
            /\ \A i \in 1..Len(F) : IsDelayFrame(F[i]) => i = 2
            /\ inRange =>
                  /\ Len(F[2]) = Len(F[1])
                  /\ \A b \in 0..(Len(F[1]) - 1) :
                        At(F[2], b) = CASE b = 4 -> 5
                                        [] b = 5 -> ms % 256
                                        [] b = 6 -> ms \div 256
                                        [] OTHER -> At(F[1], b)
                  /\ AllWritten => last.result = "Ok"
                  /\ last.result # "DelayOutOfRange"
            /\ (LeadingDelay(m) /\ ms > MaxDelayMs) =>
                  (last.result = "DelayOutOfRange" /\ Len(F) = 1)
            /\ last.result = "DelayOutOfRange" =>
                  (LeadingDelay(m) /\ ms > MaxDelayMs)

C7_Witness ==
    /\ IsBind("884x")
    /\ LeadingDelay(last.macro)
    /\ last.macro.presses[1].ms = MaxDelayMs
    /\ last.result = "Ok"
    /\ Len(CallFrames) = 5
    /\ At(CallFrames[2], 4) = 5
    /\ At(CallFrames[2], 5) = 112
    /\ At(CallFrames[2], 6) = 23

(* C8: family B keyboard macro with N real presses (0 <= N <= 5, no        *)
(* Delay): exactly N+1 per-element frames are written; the frame at        *)
(* position i (from 0) has byte 4 = i and byte 3 = N; frame 0 is the       *)
(* placeholder with modifier 0 and code 0; frame i >= 1 carries modifier   *)
(* and code of real element i-1, in the original order.                    *)
C8_PerElementFrames ==
    ( /\ IsBind("8890")
      /\ IsKeyboard(last.macro)
      /\ Len(last.macro.presses) <= MaxKeys8890
      /\ ~HasDelay(last.macro) ) =>
        LET F == CallFrames
            P == last.macro.presses
            N == Len(P)
        IN  /\ last.result = "Ok" => Len(F) = N + 3
            /\ Len(F) <= N + 3
            /\ \A i \in 0..N :
                  (i + 2 <= Len(F) /\ F[i + 2] # FinishFrame) =>
                     /\ At(F[i + 2], 4) = i
                     /\ At(F[i + 2], 3) = N
                     /\ At(F[i + 2], 5) =
                           IF i = 0 THEN 0 ELSE ModifiersAsU8(P[i].modifiers)
                     /\ At(F[i + 2], 6) =
                           IF i = 0 THEN 0 ELSE CodeValue(P[i].code)

C8_Witness ==
    /\ IsBind("8890")
    /\ IsKeyboard(last.macro)
    /\ Len(last.macro.presses) = 3
    /\ ~HasDelay(last.macro)
    /\ last.result = "Ok"
    /\ Len(CallFrames) = 6
    /\ At(CallFrames[5], 4) = 3

(* C9: family B rejects a keyboard macro with more than 5 presses with     *)
(* MacroTooLong and rejects any keyboard macro containing a Delay element  *)
(* (at any position) with UnsupportedFeature; in both cases no per-element *)
(* frame is written for that call.  (The statement as claimed; the calls   *)
(* are those that reach the macro: valid layer, start frame written.)      *)
ReachedMacro8890 ==
    /\ IsBind("8890")
    /\ IsKeyboard(last.macro)
    /\ last.layer <= MaxLayer
    /\ CallLog # <<>>
    /\ CallLog[1].ok

C9_AnyDelayUnsupported ==
    ReachedMacro8890 =>
        /\ Len(KeyElements(last.macro)) > MaxKeys8890 =>
              (last.result = "MacroTooLong" /\ Len(CallLog) = 1)
        /\ HasDelay(last.macro) =>
              (last.result = "UnsupportedFeature" /\ Len(CallLog) = 1)

(* C9 as amended: family B rejects a keyboard macro of more than 5         *)
(* elements (Key or Delay) with MacroTooLong, and a keyboard macro of at   *)
(* most 5 elements that contains a Delay element (at any position) with    *)
(* UnsupportedFeature; in both cases no per-element frame is written.      *)
C9_LengthThenDelay ==
    ReachedMacro8890 =>
        /\ Len(last.macro.presses) > MaxKeys8890 =>
              (last.result = "MacroTooLong" /\ Len(CallLog) = 1)
        /\ (Len(last.macro.presses) <= MaxKeys8890 /\ HasDelay(last.macro)) =>
              (last.result = "UnsupportedFeature" /\ Len(CallLog) = 1)
        /\ last.result \in {"MacroTooLong", "UnsupportedFeature"} =>
              (Len(last.macro.presses) > MaxKeys8890 \/ HasDelay(last.macro))

C9_Witness ==
    /\ ReachedMacro8890
    /\ Len(last.macro.presses) = MaxKeys8890
    /\ IsDelay(last.macro.presses[MaxKeys8890])
    /\ last.result = "UnsupportedFeature"
    /\ Len(CallLog) = 1

(* C10: for both families set_led(n) fails with UnsupportedFeature for     *)
(* every n and in every state, writes no frame and leaves the encoder's    *)
(* handle and endpoint unchanged.                                          *)
C10_SetLedUnsupported ==
    [][ (last'.op = "set_led" /\ last' # last) =>
           /\ last'.result = "UnsupportedFeature"
           /\ wire' = wire
           /\ kbd' = kbd
           /\ last'.base = Len(wire) ]_vars

C10_Witness ==
    /\ last.op = "set_led"
    /\ last.n = 255
    /\ last.result = "UnsupportedFeature"
    /\ budget < MaxCalls
    /\ Len(wire) > 1

(* C11: every frame handed to the transport, by either encoder and in any  *)
(* call (construction probe, header/start, delay, payload, finish), is a   *)
(* byte array of length between 8 and 10 bytes.  (The statement as         *)
(* claimed.)                                                               *)
C11_FrameLen8To10 ==
    \A i \in 1..Len(wire) : Len(wire[i].f) \in 8..10

(* C11 as amended: every frame handed to the transport is an array of      *)
(* bytes; the construction probe is empty; every frame of a family-B       *)
(* bind_key call is 9 bytes long; the frames of a family-A bind_key call   *)
(* are the 9-, 4- and 9-byte finish frames and a header (and delay frame)  *)
(* of 10 bytes plus the macro's extension: 11 + 2 * keys for a keyboard    *)
(* macro (11 to 47), 17 for media, 13 for a click and 16 for a wheel.      *)
HeaderLen884x(m) ==
    CASE m.type = "Keyboard" -> 11 + 2 * Len(KeyElements(m))
      [] m.type = "Media" -> 17
      [] m.type = "Mouse" /\ m.action = "Click" -> 13
      [] OTHER -> 16

C11_FrameLengths ==
    /\ \A i \in 1..Len(wire) :
          \A b \in 1..Len(wire[i].f) : wire[i].f[b] \in 0..255
    /\ last.op = "new" => (Len(CallFrames) = 1 /\ CallFrames[1] = <<>>)
    /\ IsBind("8890") => \A i \in 1..Len(CallFrames) : Len(CallFrames[i]) = 9
    /\ IsBind("884x") =>
          \A i \in 1..Len(CallFrames) :
              LET f == CallFrames[i]
              IN  IF i = 1 \/ IsDelayFrame(f)
                  THEN /\ Len(f) = HeaderLen884x(last.macro)
                       /\ Len(f) \in 11..(11 + 2 * MaxKeys884x)
                  ELSE \/ f = FinishFrame
                       \/ f = FinishFrame2

C11_Witness ==
    /\ IsBind("884x")
    /\ last.result = "Ok"
    /\ LeadingDelay(last.macro)
    /\ Len(CallFrames) = 5
    /\ Len(CallFrames[1]) = 11 + 2 * (MaxKeys884x - 1)
    /\ Len(CallFrames[2]) = 11 + 2 * (MaxKeys884x - 1)
    /\ Len(CallFrames[4]) = 4

(* C12: constructing an encoder of either family writes exactly one empty  *)
(* probe frame, the first frame written on the handle, before any frame of *)
(* any bind_key call; if the probe write fails, construction fails and no  *)
(* encoder instance exists to issue bind_key.                              *)
C12_ProbeFirst ==
    /\ kbd.state = "none" <=> wire = <<>>
    /\ wire # <<>> =>
          /\ wire[1].f = <<>>
          /\ \A i \in 2..Len(wire) : wire[i].f # <<>>
          /\ kbd.state = "ready" <=> wire[1].ok
          /\ kbd.state = "failed" <=> ~wire[1].ok
    /\ kbd.state = "failed" =>
          /\ Len(wire) = 1
          /\ last.op = "new"
          /\ last.result = "TransportError"
    /\ last.op \in {"bind_key", "set_led"} =>
          (kbd.state = "ready" /\ last.base >= 1)

C12_Witness ==
    /\ kbd.state = "ready"
    /\ last.op = "bind_key"
    /\ wire[1] = [f |-> <<>>, ok |-> TRUE]
    /\ Len(wire) > 2
    /\ last.base > 1

(* Byte 2 of a family-B payload frame as the expression                     *)
(* ((layer+1) << 4) | kind evaluated in one byte.                          *)
Byte2Of8890(layer, kind) == (((layer + 1) * 16) % 256) + kind

IsClick(m) == m.type = "Mouse" /\ m.action = "Click"

IsWheel(m) == m.type = "Mouse" /\ m.action \in {"WheelUp", "WheelDown"}

ValidCall(ceiling) == last.layer <= MaxLayer /\ KeyIdValid(last.key, ceiling)

StartWritten == CallLog # <<>> /\ CallLog[1].ok

(* C13: a Mouse Click macro with an empty button set fails with            *)
(* MissingButtons on both families, and no frame carrying a button mask of *)
(* 0 for a click is ever written; with a non-empty set, family A appends   *)
(* [0x01, 0, buttonMask] to the header and family B writes                 *)
(* [0x03, keyId, ((layer+1)<<4)|0x03, buttonMask, 0,0,0, modifierByte, 0]. *)
C13_ClickButtons ==
    /\ (last.op = "bind_key" /\ last.result = "MissingButtons") =>
          (IsClick(last.macro) /\ last.macro.buttons = {})
    /\ (IsBind("884x") /\ IsClick(last.macro)) =>
          LET m == last.macro
              F == CallFrames
          IN  /\ (m.buttons = {} /\ ValidCall(KeyCeiling884x)) =>
                    (last.result = "MissingButtons" /\ F = <<>>)
              /\ m.buttons = {} => F = <<>>
              /\ F # <<>> =>
                    F[1] = <<3, 254, last.key + 1, last.layer + 1, 1,
                             0, 0, 0, 0, 0,
                             1, 0, ButtonsAsU8(m.buttons)>>
              /\ F # <<>> => At(F[1], 12) \in 1..7
              /\ (m.buttons # {} /\ ValidCall(KeyCeiling884x) /\ AllWritten) =>
                    (last.result = "Ok" /\ Len(F) = 4)
    /\ (IsBind("8890") /\ IsClick(last.macro)) =>
          LET m == last.macro
              F == CallFrames
          IN  /\ (m.buttons = {} /\ StartWritten) =>
                    (last.result = "MissingButtons" /\ Len(F) = 1)
              /\ \A i \in 1..Len(F) : IsPayload8890(F[i]) => At(F[i], 3) \in 1..7
              /\ Len(F) >= 2 =>
                    F[2] = <<3, last.key + 1, Byte2Of8890(last.layer, 3),
                             ButtonsAsU8(m.buttons), 0, 0, 0,
                             ModifierByte(m.modifier), 0>>
              /\ (m.buttons # {} /\ ValidCall(KeyCeiling8890) /\ AllWritten) =>
                    (last.result = "Ok" /\ Len(F) = 3)

C13_Witness ==
    /\ IsBind("8890")
    /\ IsClick(last.macro)
    /\ last.macro.buttons = {}
    /\ last.result = "MissingButtons"
    /\ Len(CallLog) = 1

(* C14: for both families and every optional modifier, WheelUp encodes the *)
(* step byte as 0x01 and WheelDown as 0xFF: family A extends the header    *)
(* with [0x03, modifierByte, 0,0,0, step]; family B writes the payload     *)
(* frame [0x03, keyId, ((layer+1)<<4)|0x03, 0,0,0, step, modifierByte, 0], *)
(* with modifierByte = 0 when no modifier is given.                        *)
StepByte(m) == IF m.action = "WheelUp" THEN 1 ELSE 255

C14_WheelStep ==
    /\ (IsBind("884x") /\ IsWheel(last.macro)) =>
          LET m == last.macro
              F == CallFrames
          IN  /\ F # <<>> =>
                    F[1] = <<3, 254, last.key + 1, last.layer + 1, 3,
                             0, 0, 0, 0, 0,
                             3, ModifierByte(m.modifier), 0, 0, 0, StepByte(m)>>
              /\ (ValidCall(KeyCeiling884x) /\ AllWritten) =>
                    (last.result = "Ok" /\ Len(F) = 4)
    /\ (IsBind("8890") /\ IsWheel(last.macro)) =>
          LET m == last.macro
              F == CallFrames
          IN  /\ Len(F) >= 2 =>
                    F[2] = <<3, last.key + 1, Byte2Of8890(last.layer, 3),
                             0, 0, 0, StepByte(m),
                             ModifierByte(m.modifier), 0>>
              /\ (ValidCall(KeyCeiling8890) /\ AllWritten) =>
                    (last.result = "Ok" /\ Len(F) = 3)
    /\ (last.op = "bind_key" /\ IsWheel(last.macro)) =>
          (last.macro.modifier = {} => ModifierByte(last.macro.modifier) = 0)

C14_Witness ==
    /\ IsBind("884x")
    /\ last.macro = WheelMacro("WheelDown", {"Ctrl"})
    /\ last.result = "Ok"
    /\ At(CallFrames[1], 11) = 1
    /\ At(CallFrames[1], 15) = 255

(* C15: family B Mouse Move{dx,dy}: for every dx and dy in -128..127 the   *)
(* payload frame carries the 8-bit two's complement byte of dy at byte 4   *)
(* and of dx at byte 5 (vertical before horizontal), byte = value mod 256, *)
(* so dx = -1 gives 0xFF and dx = 127 gives 0x7F; bytes 3 and 6 are 0 and  *)
(* byte 7 is the modifier byte.                                            *)
IsMove(m) == m.type = "Mouse" /\ m.action = "Move"

TwosComplement8(v) == IF v < 0 THEN v + 256 ELSE v

C15_MoveBytes ==
    (IsBind("8890") /\ IsMove(last.macro)) =>
        LET m == last.macro
            F == CallFrames
        IN  /\ Len(F) >= 2 =>
                  /\ Len(F[2]) = 9
                  /\ At(F[2], 3) = 0
                  /\ At(F[2], 4) = TwosComplement8(m.dy)
                  /\ At(F[2], 5) = TwosComplement8(m.dx)
                  /\ At(F[2], 6) = 0
                  /\ At(F[2], 7) = ModifierByte(m.modifier)
                  /\ m.dx = -1 => At(F[2], 5) = 255
                  /\ m.dx = 127 => At(F[2], 5) = 127
            /\ (ValidCall(KeyCeiling8890) /\ AllWritten) =>
                  (last.result = "Ok" /\ Len(F) = 3)

C15_Witness ==
    /\ IsBind("8890")
    /\ IsMove(last.macro)
    /\ last.macro.dx = -1
    /\ last.macro.dy = -128
    /\ last.result = "Ok"
    /\ At(CallFrames[2], 4) = 128
    /\ At(CallFrames[2], 5) = 255

(* C16: family A Media macro: for every 16-bit consumer code c and layer   *)
(* in 0..15, bind_key writes exactly four frames: the header               *)
(* [0x03,0xFE,keyId,layer+1,2,0,0,0,0,0] extended with                     *)
(* [0, c mod 256, c div 256, 0,0,0,0], then the three fixed finish frames, *)
(* and no delay frame.                                                     *)
IsMedia(m) == m.type = "Media"

C16_MediaFrames ==
    (IsBind("884x") /\ IsMedia(last.macro)) =>
        LET c == last.macro.code
            F == CallFrames
            header == <<3, 254, last.key + 1, last.layer + 1, 2, 0, 0, 0, 0, 0,
                        0, c % 256, c \div 256, 0, 0, 0, 0>>
        IN  /\ F # <<>> => F[1] = header
            /\ \A i \in 1..Len(F) : ~IsDelayFrame(F[i])
            /\ (ValidCall(KeyCeiling884x) /\ AllWritten) =>
                  /\ last.result = "Ok"
                  /\ F = <<header, FinishFrame, FinishFrame2, FinishFrame>>

C16_Witness ==
    /\ IsBind("884x")
    /\ last.macro = MediaMacro(233)
    /\ last.layer = 0
    /\ last.result = "Ok"
    /\ Len(CallFrames) = 4
    /\ CallFrames[1] = <<3, 254, 1, 1, 2, 0, 0, 0, 0, 0, 0, 233, 0, 0, 0, 0, 0>>

(* C17: family B payload frames: for every layer in 0..15, byte 2 of each  *)
(* payload frame (keyboard, media, mouse) carries the wire layer layer+1   *)
(* (1..16) in its upper four bits and the macro kind in its lower four     *)
(* bits, with no loss of the layer value when (layer+1)<<4 is stored in    *)
(* one byte; for layer 15 the upper four bits still represent wire layer   *)
(* 16.                                                                     *)
KindNibble8890(m) ==
    CASE m.type = "Keyboard" -> 0
      [] m.type = "Media" -> 2
      [] m.type = "Mouse" -> 3

C17_LayerNibble ==
    (IsBind("8890") /\ last.layer <= MaxLayer) =>
        \A i \in 1..Len(CallFrames) :
            IsPayload8890(CallFrames[i]) =>
                /\ At(CallFrames[i], 2) % 16 = KindNibble8890(last.macro)
                /\ 16 * (last.layer + 1) + KindNibble8890(last.macro)
                      = At(CallFrames[i], 2)

(* C18: if no transport write fails, a bind_key call on either family      *)
(* either writes no frame at all or writes a complete sequence that ends   *)
(* with its finish frame(s): a validation failure never leaves a           *)
(* header/start frame on the wire without the matching finish frame(s).    *)
C18_NothingOrComplete ==
    (last.op = "bind_key" /\ AllWritten) =>
        \/ CallLog = <<>>
        \/ /\ last.result = "Ok"
           /\ CallFrames[Len(CallFrames)] = FinishFrame

(* C19: bind_key keeps no state between calls: the frames a call writes,   *)
(* and its result given the same transport outcomes, depend only on        *)
(* (layer, key, macro) and not on earlier bind_key or set_led calls; the   *)
(* frame log is the concatenation of the per-call sequences after the      *)
(* single construction probe; bind_key never changes the encoder's handle  *)
(* or endpoint.                                                            *)
Outcomes(L) == [i \in 1..Len(L) |-> L[i].ok]

SameArgs ==
    /\ last'.layer = last.layer
    /\ last'.key = last.key
    /\ last'.macro = last.macro

StepsOf(family, layer, key, m) ==
    IF family = "884x" THEN Steps884x(layer, key, m)
    ELSE Steps8890(layer, key, m)

C19_Stateless ==
    [][ (last'.op = "bind_key" /\ budget' # budget) =>
          /\ kbd' = kbd
          /\ last'.base = Len(wire)
          /\ SubSeq(wire', 1, Len(wire)) = wire
          /\ wire'[1].f = <<>>
          /\ \A i \in 2..Len(wire') : wire'[i].f # <<>>
          /\ LET steps == StepsOf(kbd.family, last'.layer, last'.key,
                                  last'.macro)
             IN  \E k \in FailPoints(steps) :
                    /\ Run(steps, k).log = CallLog'
                    /\ Run(steps, k).result = last'.result
          /\ (last.op = "bind_key" /\ SameArgs) =>
                /\ \A i \in 1..Len(CallLog) :
                      i <= Len(CallLog') => CallLog'[i].f = CallLog[i].f
                /\ Outcomes(CallLog') = Outcomes(CallLog) =>
                      (CallLog' = CallLog /\ last'.result = last.result)
      ]_vars

C19_Witness ==
    /\ last.op = "bind_key"
    /\ last.result = "Ok"
    /\ Len(CallLog) >= 4
    /\ last.base = 1 + Len(CallLog)
    /\ SubSeq(wire, 2, last.base) = CallLog

====
